---- MODULE Spec2Model ----
(***************************************************************************)
(* A model of src/src/main.rs: a key-value server speaking a RESP-like     *)
(* wire protocol.  Text is modelled as a sequence of characters, each      *)
(* character a one-element string; CR and LF stand for '\r' and '\n'.      *)
(***************************************************************************)
EXTENDS Integers, Sequences, FiniteSets, TLC

VARIABLES
  storage,    \* main: the shared HashMap<String, StorageEntry>
  lock,       \* main: the Mutex around the map: its holder, or NoThread
  now,        \* the monotonic clock read by Instant::now()
  pc,         \* handle_stream: each connection thread's position
  batch,      \* handle_stream: the instructions still to run, per thread
  local,      \* handle_stream: the locals of the Get/Set arm, per thread
  lastSet,    \* history: per key, the latest SET that took effect: its value,
              \* its TTL and, when it has one, the instant it read from the clock
  text,       \* the text handed to CharRoller::from_string / sent by a client
  roller,     \* CharRoller {chars, index}
  words,      \* history: the successive results of next_word
  ps,         \* handle_client_message: its locals
  wire        \* one connection of handle_stream, read by read; with the
              \* history of the parse in progress: declared, the count of the
              \* last array header; consumed, the content tokens read since;
              \* emits, both as they were at each Command pushed; and log,
              \* the instructions and the replies of each message answered

storeVars  == <<storage, lock, now, pc, batch, local, lastSet>>
rollerVars == <<text, roller, words>>
wireVars   == <<ps, wire>>
vars == <<storage, lock, now, pc, batch, local, lastSet, text, roller, words, ps, wire>>

----------------------------------------------------------------------------
(* Characters and strings *)

CR == "CR"
LF == "LF"
SEPARATOR == <<CR, LF>>
NULL_BULK_STRING == <<"$", "-", "1", CR, LF>>

None == [some |-> FALSE, val |-> <<>>]
Some(x) == [some |-> TRUE, val |-> x]

Digits == <<"0", "1", "2", "3", "4", "5", "6", "7", "8", "9">>
UpperCase == <<"A", "B", "C", "D", "E", "F", "G", "H", "I", "J", "K", "L", "M",
               "N", "O", "P", "Q", "R", "S", "T", "U", "V", "W", "X", "Y", "Z">>
LowerCase == <<"a", "b", "c", "d", "e", "f", "g", "h", "i", "j", "k", "l", "m",
               "n", "o", "p", "q", "r", "s", "t", "u", "v", "w", "x", "y", "z">>

IsDigit(c) == \E i \in 1..10 : Digits[i] = c
DigitValue(c) == (CHOOSE i \in 1..10 : Digits[i] = c) - 1

\* char::to_lowercase on the ASCII letters
LowerChar(c) ==
  IF \E i \in 1..26 : UpperCase[i] = c
  THEN LowerCase[CHOOSE i \in 1..26 : UpperCase[i] = c]
  ELSE c

\* str::to_lowercase
to_lowercase(s) == [i \in 1..Len(s) |-> LowerChar(s[i])]

\* char::is_whitespace, on the characters of the model
IsWhitespace(c) == c \in {" ", CR, LF}

RECURSIVE TrimStart(_)
TrimStart(s) ==
  IF Len(s) > 0 /\ IsWhitespace(s[1]) THEN TrimStart(Tail(s)) ELSE s

RECURSIVE TrimEnd(_)
TrimEnd(s) ==
  IF Len(s) > 0 /\ IsWhitespace(s[Len(s)])
  THEN TrimEnd(SubSeq(s, 1, Len(s) - 1))
  ELSE s

\* str::trim
trim(s) == TrimEnd(TrimStart(s))

\* usize -> decimal text, as format!("{}", n) prints it
RECURSIVE ToDecimal(_)
ToDecimal(n) ==
  IF n < 10 THEN <<Digits[n + 1]>>
  ELSE ToDecimal(n \div 10) \o <<Digits[(n % 10) + 1]>>

RECURSIVE DigitsValue(_, _)
DigitsValue(s, acc) ==
  IF Len(s) = 0 THEN acc
  ELSE DigitsValue(Tail(s), acc * 10 + DigitValue(s[1]))

\* str::parse::<usize>() and ::<u64>(): an optional '+', then one or more
\* digits; Err (None) otherwise.  The texts of the model hold numbers of a few
\* digits, far below 2^64, so the Err of a value that does not fit is not
\* reached.
ParseUnsigned(s) ==
  LET body == IF Len(s) > 0 /\ s[1] = "+" THEN Tail(s) ELSE s IN
  IF Len(body) = 0 \/ \E i \in 1..Len(body) : ~IsDigit(body[i]) THEN None
  ELSE Some(DigitsValue(body, 0))

\* [String]::join(" ")
RECURSIVE Join(_)
Join(ss) ==
  IF Len(ss) = 0 THEN <<>>
  ELSE IF Len(ss) = 1 THEN ss[1]
  ELSE ss[1] \o <<" ">> \o Join(Tail(ss))

----------------------------------------------------------------------------
(* format_message *)

format_message(kind, body) ==
  LET message ==
        CASE kind = "SimpleString" -> <<"+">> \o body
          [] kind = "Error"        -> <<"-">> \o body
          [] kind = "Integer"      -> <<":">>
          [] kind = "BulkString"   -> <<"$">> \o ToDecimal(Len(body)) \o SEPARATOR \o body
          [] kind = "Array"        -> <<"*">>
  IN message \o SEPARATOR

----------------------------------------------------------------------------
(* CharRoller *)

from_string(phrase) == [chars |-> phrase, index |-> 0]

RECURSIVE ScanWord(_, _, _)

\* Mutant of ScanWord: the carriage return is kept in the word.
ScanWordKeepCR(chars, index, word) ==
  IF index >= Len(chars) THEN [index |-> index, word |-> word]
  ELSE LET c == chars[index + 1] IN
       IF c = LF THEN [index |-> index + 1, word |-> word]
       ELSE ScanWord(chars, index + 1, Append(word, c))

\* the while loop of next_word: from index, with the word so far
ScanWord(chars, index, word) ==
  IF index >= Len(chars) THEN [index |-> index, word |-> word]
  ELSE LET c == chars[index + 1] IN
       IF c = CR THEN ScanWord(chars, index + 1, word)
       ELSE IF c = LF THEN [index |-> index + 1, word |-> word]
       ELSE ScanWord(chars, index + 1, Append(word, c))

\* CharRoller::next_word: the roller after the call and the Option returned
next_word(r) ==
  IF r.index = Len(r.chars) THEN [roller |-> r, result |-> None]
  ELSE LET s == ScanWord(r.chars, r.index, <<>>) IN
       [roller |-> [chars |-> r.chars, index |-> s.index],
        result |-> IF Len(s.word) = 0 THEN None ELSE Some(s.word)]

----------------------------------------------------------------------------
(* Command and handle_client_message *)

\* enum Command, as one record shape: Echo(value), Command(value), Get(key),
\* Set(key, value, expiry), Ping
Echo(message)   == [op |-> "Echo", key |-> <<>>, value |-> message, expiry |-> None]
CommandCmd(c)   == [op |-> "Command", key |-> <<>>, value |-> c, expiry |-> None]
Get(key)        == [op |-> "Get", key |-> key, value |-> <<>>, expiry |-> None]
Set(key, value, expiry) == [op |-> "Set", key |-> key, value |-> value, expiry |-> expiry]
Ping            == [op |-> "Ping", key |-> <<>>, value |-> <<>>, expiry |-> None]

\* get_instruction_type; "Panic" is the panic!("unknown type") arm
get_instruction_type(c) ==
  CASE c = "+" -> "SimpleString"
    [] c = "-" -> "Error"
    [] c = ":" -> "Integer"
    [] c = "$" -> "BulkString"
    [] c = "*" -> "Array"
    [] OTHER   -> "Panic"

\* the locals of handle_client_message at its start; panic is "" while the
\* function runs, and names the panic once it has panicked
InitialParser ==
  [state |-> "ReadingArray", command_name |-> <<>>, args |-> <<>>,
   instructions |-> <<>>, items_left_count |-> 0, panic |-> ""]

Panicked(p, why) == [p EXCEPT !.panic = why]

\* the "set" arm without the test expiry > 0
ParseExpiryZero(args) ==
  IF Len(args) = 4 THEN ParseUnsigned(args[4]) ELSE None

\* let mut expiry of the "set" arm: Some(n) when there are four arguments and
\* the fourth parses as a u64 n > 0
ParseExpiry(args) ==
  LET parsed == IF Len(args) = 4 THEN ParseUnsigned(args[4]) ELSE None
  IN IF parsed.some /\ parsed.val > 0 THEN Some(parsed.val) ELSE None

\* the match on command_name.to_lowercase() and the assignment after it
DispatchCommand(p) ==
  LET name == to_lowercase(p.command_name)
      done == [p EXCEPT !.state = "ReadingBulkStringLength"]
  IN
  CASE name = <<"p", "i", "n", "g">> ->
         [done EXCEPT !.instructions = Append(@, Ping), !.command_name = <<>>]
    [] name = <<"e", "c", "h", "o">> ->
         [done EXCEPT !.instructions = Append(@, Echo(Join(p.args))),
                      !.command_name = <<>>]
    [] name = <<"g", "e", "t">> ->
         IF Len(p.args) < 1 THEN Panicked(p, "index out of bounds")
         ELSE [done EXCEPT !.instructions = Append(@, Get(p.args[1])),
                           !.command_name = <<>>]
    [] name = <<"s", "e", "t">> ->
         IF Len(p.args) < 2 THEN Panicked(p, "index out of bounds")
         ELSE [done EXCEPT !.instructions =
                              Append(@, Set(p.args[1], p.args[2], ParseExpiry(p.args))),
                           !.command_name = <<>>]
    [] name = <<"c", "o", "m", "m", "a", "n", "d">> ->
         [done EXCEPT !.instructions = Append(@, CommandCmd(Join(p.args))),
                      !.command_name = <<>>]
    [] OTHER -> done

\* One iteration of the while loop of handle_client_message on raw_word.
\* items_left_count is a usize: in a build with overflow checks 0 - 1 panics,
\* without them it wraps, and a negative n here stands for 2^64 + n.
ParseWord(p, raw_word, build) ==
  LET word == trim(raw_word) IN
  CASE p.state = "ReadingArray" ->
         IF Len(word) = 0 THEN Panicked(p, "unwrap on None")
         ELSE IF get_instruction_type(word[1]) = "Panic" THEN Panicked(p, "unknown type")
         ELSE IF get_instruction_type(word[1]) # "Array" THEN Panicked(p, "expected array")
         ELSE LET array_length == ParseUnsigned(Tail(word)) IN
              IF ~array_length.some THEN Panicked(p, "unwrap on Err")
              ELSE [p EXCEPT !.items_left_count = array_length.val,
                             !.state = "ReadingBulkStringLength"]
    [] p.state = "ReadingBulkStringLength" ->
         IF Len(word) = 0 THEN Panicked(p, "unwrap on None")
         ELSE IF get_instruction_type(word[1]) = "Panic" THEN Panicked(p, "unknown type")
         ELSE IF get_instruction_type(word[1]) # "BulkString"
              THEN Panicked(p, "expected bulk string")
         ELSE [p EXCEPT !.state = "ReadingBulkStringContent"]
    [] p.state = "ReadingBulkStringContent" ->
         LET q == IF Len(p.command_name) = 0
                  THEN [p EXCEPT !.command_name = word]
                  ELSE [p EXCEPT !.args = Append(@, word)]
         IN IF q.items_left_count # 1
            THEN IF q.items_left_count = 0 /\ build = "debug"
                 THEN Panicked([q EXCEPT !.state = "ReadingBulkStringLength"],
                               "attempt to subtract with overflow")
                 ELSE [q EXCEPT !.state = "ReadingBulkStringLength",
                                !.items_left_count = @ - 1]
            ELSE DispatchCommand(q)

\* the while loop of handle_client_message, run to its end or to a panic
RECURSIVE RunParser(_, _, _)
RunParser(r, p, build) ==
  LET n == next_word(r) IN
  IF ~n.result.some THEN p
  ELSE LET q == ParseWord(p, n.result.val, build) IN
       IF q.panic # "" THEN q ELSE RunParser(n.roller, q, build)

\* handle_client_message: .instructions is the Vec returned when .panic = ""
handle_client_message(message, build) ==
  RunParser(from_string(message), InitialParser, build)

----------------------------------------------------------------------------
(* Requests as clients frame them *)

\* $<len>\r\n<bytes>\r\n for each element
RECURSIVE BulkStrings(_)
BulkStrings(ss) ==
  IF Len(ss) = 0 THEN <<>>
  ELSE format_message("BulkString", ss[1]) \o BulkStrings(Tail(ss))

\* *<N>\r\n followed by the N bulk strings
Request(ss) == <<"*">> \o ToDecimal(Len(ss)) \o SEPARATOR \o BulkStrings(ss)

----------------------------------------------------------------------------
(* The storage engine: StorageEntry and the Get and Set arms of handle_stream *)

\* Duration::from_secs(1), in the clock's unit, the millisecond
SecondMs == 1000

\* StorageEntry::new
StorageEntry(value, expire_timestamp) ==
  [value |-> value, expire_timestamp |-> expire_timestamp]

\* HashMap::get, ::insert and ::remove on a map held as a function on its keys
MapGet(map, key) == IF key \in DOMAIN map THEN Some(map[key]) ELSE None
\* Mutant of MapInsert: an entry already there is kept (entry().or_insert()).
MapInsertIfAbsent(map, key, entry) ==
  [k \in DOMAIN map \cup {key} |-> IF k \in DOMAIN map THEN map[k] ELSE entry]

MapInsert(map, key, entry) ==
  [k \in DOMAIN map \cup {key} |-> IF k = key THEN entry ELSE map[k]]
MapRemove(map, key) == [k \in DOMAIN map \ {key} |-> map[k]]

\* Mutant of IsExpired: an entry is dropped at its expiry instant already.
IsExpiredAtInstant(entry, t) ==
  LET expiry == IF entry.expire_timestamp.some
                THEN entry.expire_timestamp.val ELSE t + SecondMs
  IN entry.expire_timestamp.some /\ t >= expiry

\* the condition of the Get arm: entry.expire_timestamp.is_some() && now > expiry
IsExpired(entry, t) ==
  LET expiry == IF entry.expire_timestamp.some
                THEN entry.expire_timestamp.val ELSE t + SecondMs
  IN entry.expire_timestamp.some /\ t > expiry

\* Mutant of ExpireTimestamp: the TTL is not added to the clock.
ExpireTimestampNoTtl(expiry, t) == IF expiry.some THEN Some(t) ELSE None

\* Mutant of ExpireTimestamp: an entry set without a TTL expires at once.
ExpireTimestampAlways(expiry, t) == Some(t + (IF expiry.some THEN expiry.val ELSE 0))

\* the match of the Set arm: Some(Instant::now() + Duration::from_millis(ms))
ExpireTimestamp(expiry, t) == IF expiry.some THEN Some(t + expiry.val) ELSE None

----------------------------------------------------------------------------
(* The server: main's threads, each running handle_stream on its connection *)

Threads == {"t1", "t2"}
NoThread == "none"

\* the clock stops at MaxTime
MaxTime == 2

KeyK == <<"k">>
KeyJ == <<"j">>
ValV == <<"v">>
ValW == <<"w">>

\* What a client sends in one write, read whole by one stream.read
Messages ==
  << Request(<<<<"S", "E", "T">>, KeyK, ValV>>),
     Request(<<<<"S", "E", "T">>, KeyK, ValW, <<"p", "x">>, <<"1">>>>),
     Request(<<<<"G", "E", "T">>, KeyK>>),
     Request(<<<<"s", "e", "t">>, KeyJ, ValV>>),
     Request(<<<<"g", "e", "t">>, KeyJ>>),
     Request(<<<<"P", "I", "N", "G">>>>),
     Request(<<<<"f", "o", "o">>>>),
     <<"x", CR, LF>>,
     Request(<<<<"E", "C", "H", "O">>, ValV>>),
     Request(<<<<"C", "O", "M", "M", "A", "N", "D">>>>) >>

\* handle_client_message on each message.  No message of Messages reaches the
\* subtraction at items_left_count = 0, so the build does not matter here.
ParsedMessages ==
  [i \in 1..Len(Messages) |-> handle_client_message(Messages[i], "release")]

\* the bodies of the fixed replies
ErrorProcessingMessage ==
  <<"E", "r", "r", "o", "r", " ", "p", "r", "o", "c", "e", "s", "s", "i", "n", "g",
    " ", "m", "e", "s", "s", "a", "g", "e">>
NotSupportedYet ==
  <<"n", "o", "t", " ", "s", "u", "p", "p", "o", "r", "t", "e", "d", " ", "y", "e", "t">>

NoLocal == [entry |-> None, now |-> 0, old |-> None, message_to_send |-> <<>>]

InitStore ==
  /\ storage = <<>>
  /\ lock = NoThread
  /\ now = 0
  /\ pc = [t \in Threads |-> "read"]
  /\ batch = [t \in Threads |-> <<>>]
  /\ local = [t \in Threads |-> NoLocal]
  /\ lastSet = <<>>

\* the history of SETs after instruction took effect at instant t
Recorded(history, instruction, t) ==
  [key \in DOMAIN history \cup {instruction.key} |->
     IF key = instruction.key
     THEN [value |-> instruction.value, expiry |-> instruction.expiry,
           at |-> IF instruction.expiry.some THEN t ELSE 0]
     ELSE history[key]]

\* Mutant of MutexFree: lock() returns at once, whoever holds the mutex.
MutexAlwaysFree == TRUE

\* Mutex::lock returns only when no thread holds the mutex
MutexFree == lock = NoThread

\* Mutant of Read: a panic of the parser aborts the process, ending every thread.
ReadAborts(t) ==
  /\ pc[t] = "read"
  /\ \E i \in 1..Len(Messages) :
       LET r == ParsedMessages[i] IN
       IF r.panic # ""
       THEN /\ pc' = [u \in Threads |-> "panicked"]
            /\ UNCHANGED <<batch, local>>
       ELSE IF Len(r.instructions) = 0
       THEN /\ local' = [local EXCEPT ![t] =
                 [NoLocal EXCEPT !.message_to_send =
                    format_message("Error", ErrorProcessingMessage)]]
            /\ pc' = [pc EXCEPT ![t] = "write"]
            /\ UNCHANGED batch
       ELSE /\ batch' = [batch EXCEPT ![t] = r.instructions]
            /\ pc' = [pc EXCEPT ![t] = "dispatch"]
            /\ UNCHANGED local
  /\ UNCHANGED <<storage, lock, now, lastSet>>

\* stream.read returns a message; handle_client_message parses it (or panics,
\* which ends this thread only); an empty Vec is answered with the Error
Read(t) ==
  /\ pc[t] = "read"
  /\ \E i \in 1..Len(Messages) :
       LET r == ParsedMessages[i] IN
       IF r.panic # ""
       THEN /\ pc' = [pc EXCEPT ![t] = "panicked"]
            /\ UNCHANGED <<batch, local>>
       ELSE IF Len(r.instructions) = 0
       THEN /\ local' = [local EXCEPT ![t] =
                 [NoLocal EXCEPT !.message_to_send =
                    format_message("Error", ErrorProcessingMessage)]]
            /\ pc' = [pc EXCEPT ![t] = "write"]
            /\ UNCHANGED batch
       ELSE /\ batch' = [batch EXCEPT ![t] = r.instructions]
            /\ pc' = [pc EXCEPT ![t] = "dispatch"]
            /\ UNCHANGED local
  /\ UNCHANGED <<storage, lock, now, lastSet>>

\* stream.read returns Ok(0) or Err: break
Close(t) ==
  /\ pc[t] = "read"
  /\ pc' = [pc EXCEPT ![t] = "closed"]
  /\ UNCHANGED <<storage, lock, now, batch, local, lastSet>>

\* the Echo, Command and Ping arms
Dispatch(t) ==
  /\ pc[t] = "dispatch"
  /\ LET instruction == Head(batch[t]) IN
     /\ instruction.op \in {"Echo", "Command", "Ping"}
     /\ local' = [local EXCEPT ![t] = [NoLocal EXCEPT !.message_to_send =
          CASE instruction.op = "Echo" -> format_message("BulkString", instruction.value)
            [] instruction.op = "Command" ->
                 format_message("SimpleString", NotSupportedYet)
            [] instruction.op = "Ping" -> format_message("SimpleString", <<"P", "O", "N", "G">>)]]
  /\ pc' = [pc EXCEPT ![t] = "write"]
  /\ UNCHANGED <<storage, lock, now, batch, lastSet>>

\* storage_ref.lock().unwrap() of the Get and Set arms
Lock(t) ==
  /\ pc[t] = "dispatch"
  /\ Head(batch[t]).op \in {"Get", "Set"}
  /\ MutexFree
  /\ lock' = t
  /\ pc' = [pc EXCEPT ![t] = IF Head(batch[t]).op = "Get" THEN "get" ELSE "set"]
  /\ UNCHANGED <<storage, now, batch, local, lastSet>>

\* Mutant of GetLookup: the guard is a temporary of the lookup, dropped before
\* the entry is examined.
GetLookupDropsGuard(t) ==
  /\ pc[t] = "get"
  /\ LET found == MapGet(storage, Head(batch[t]).key) IN
     IF found.some
     THEN /\ local' = [local EXCEPT ![t] = [NoLocal EXCEPT !.entry = found, !.now = now]]
          /\ pc' = [pc EXCEPT ![t] = "get_some"]
          /\ lock' = NoThread
     ELSE /\ local' = [local EXCEPT ![t] = [NoLocal EXCEPT !.message_to_send = NULL_BULK_STRING]]
          /\ pc' = [pc EXCEPT ![t] = "unlock"]
          /\ UNCHANGED lock
  /\ UNCHANGED <<storage, now, batch, lastSet>>

\* storage.get(&key), and Instant::now() in the Some arm
GetLookup(t) ==
  /\ pc[t] = "get"
  /\ LET found == MapGet(storage, Head(batch[t]).key) IN
     IF found.some
     THEN /\ local' = [local EXCEPT ![t] = [NoLocal EXCEPT !.entry = found, !.now = now]]
          /\ pc' = [pc EXCEPT ![t] = "get_some"]
     ELSE /\ local' = [local EXCEPT ![t] = [NoLocal EXCEPT !.message_to_send = NULL_BULK_STRING]]
          /\ pc' = [pc EXCEPT ![t] = "unlock"]
  /\ UNCHANGED <<storage, lock, now, batch, lastSet>>

\* the if of the Some arm: remove and answer null, or answer the value
GetCheck(t) ==
  /\ pc[t] = "get_some"
  /\ LET entry == local[t].entry.val IN
     IF IsExpired(entry, local[t].now)
     THEN /\ storage' = MapRemove(storage, Head(batch[t]).key)
          /\ local' = [local EXCEPT ![t].message_to_send = NULL_BULK_STRING]
     ELSE /\ local' = [local EXCEPT ![t].message_to_send =
                          format_message("BulkString", entry.value)]
          /\ UNCHANGED storage
  /\ pc' = [pc EXCEPT ![t] = "unlock"]
  /\ UNCHANGED <<lock, now, batch, lastSet>>

\* Mutant of SetInsert: the guard is kept until after the reply is written.
SetInsertKeepGuard(t) ==
  /\ pc[t] = "set"
  /\ LET instruction == Head(batch[t])
         entry == StorageEntry(instruction.value, ExpireTimestamp(instruction.expiry, now))
     IN /\ storage' = MapInsert(storage, instruction.key, entry)
        /\ lastSet' = Recorded(lastSet, instruction, now)
        /\ local' = [local EXCEPT ![t] = [NoLocal EXCEPT
                       !.old = MapGet(storage, instruction.key),
                       !.message_to_send = format_message("SimpleString", <<"O", "K">>)]]
  /\ pc' = [pc EXCEPT ![t] = "write"]
  /\ UNCHANGED <<lock, now, batch>>

\* StorageEntry::new(value, now + ttl) and storage.insert(key, entry)
SetInsert(t) ==
  /\ pc[t] = "set"
  /\ LET instruction == Head(batch[t])
         entry == StorageEntry(instruction.value, ExpireTimestamp(instruction.expiry, now))
     IN /\ storage' = MapInsert(storage, instruction.key, entry)
        /\ lastSet' = Recorded(lastSet, instruction, now)
        /\ local' = [local EXCEPT ![t] = [NoLocal EXCEPT
                       !.old = MapGet(storage, instruction.key),
                       !.message_to_send = format_message("SimpleString", <<"O", "K">>)]]
  /\ pc' = [pc EXCEPT ![t] = "unlock"]
  /\ UNCHANGED <<lock, now, batch>>

\* the MutexGuard is dropped at the end of the arm
Unlock(t) ==
  /\ pc[t] = "unlock"
  /\ lock' = NoThread
  /\ pc' = [pc EXCEPT ![t] = "write"]
  /\ UNCHANGED <<storage, now, batch, local, lastSet>>

\* stream.write(..).unwrap() succeeds: on to the next instruction, or to read
Write(t) ==
  /\ pc[t] = "write"
  /\ batch' = [batch EXCEPT ![t] = IF Len(@) > 0 THEN Tail(@) ELSE @]
  /\ pc' = [pc EXCEPT ![t] = IF Len(batch'[t]) > 0 THEN "dispatch" ELSE "read"]
  /\ local' = [local EXCEPT ![t] = NoLocal]
  /\ UNCHANGED <<storage, lock, now, lastSet>>

\* stream.write(..) returns Err (the peer is gone): unwrap panics
WriteFail(t) ==
  /\ pc[t] = "write"
  /\ pc' = [pc EXCEPT ![t] = "panicked"]
  /\ UNCHANGED <<storage, lock, now, batch, local, lastSet>>

\* Mutant of Tick: a sweeper drops the entries whose expiry has passed.
TickSweeps ==
  /\ now < MaxTime
  /\ now' = now + 1
  /\ storage' = [key \in {live \in DOMAIN storage : ~IsExpired(storage[live], now + 1)}
                   |-> storage[key]]
  /\ UNCHANGED <<lock, pc, batch, local, lastSet>>

\* time passes
Tick ==
  /\ now < MaxTime
  /\ now' = now + 1
  /\ UNCHANGED <<storage, lock, pc, batch, local, lastSet>>

RollerIdle == text = <<>> /\ roller = from_string(<<>>) /\ words = <<>>
WireIdle == ps = InitialParser /\ wire = [pc |-> "idle"]

Init == InitStore /\ RollerIdle /\ WireIdle

Idle == UNCHANGED <<rollerVars, wireVars>>

Next ==
  \/ \E t \in Threads : Read(t) /\ Idle
  \/ \E t \in Threads : Close(t) /\ Idle
  \/ \E t \in Threads : Dispatch(t) /\ Idle
  \/ \E t \in Threads : Lock(t) /\ Idle
  \/ \E t \in Threads : GetLookup(t) /\ Idle
  \/ \E t \in Threads : GetCheck(t) /\ Idle
  \/ \E t \in Threads : SetInsert(t) /\ Idle
  \/ \E t \in Threads : Unlock(t) /\ Idle
  \/ \E t \in Threads : Write(t) /\ Idle
  \/ \E t \in Threads : WriteFail(t) /\ Idle
  \/ Tick /\ Idle

Spec == Init /\ [][Next]_vars

FairStep(t) ==
  \/ GetLookup(t) /\ Idle
  \/ GetCheck(t) /\ Idle
  \/ SetInsert(t) /\ Idle
  \/ Unlock(t) /\ Idle

\* A thread that can run does run (the scheduler), and a thread blocked in
\* lock() gets the mutex if it is free again and again.
FairSpec ==
  /\ Init /\ [][Next]_vars
  /\ \A t \in Threads : WF_vars(FairStep(t)) /\ SF_vars(Lock(t) /\ Idle)

----------------------------------------------------------------------------
(* Properties of the storage engine, checked under Spec *)

\* thread t has run the Get arm / the Set arm and still holds the guard
GetDone(t) == pc[t] = "unlock" /\ Head(batch[t]).op = "Get"
SetDone(t) == pc[t] = "unlock" /\ Head(batch[t]).op = "Set"
ValueReply(value) == format_message("BulkString", value)
\* thread u is blocked in lock() for a SET on key
SetWaits(u, key) ==
  pc[u] = "dispatch" /\ Head(batch[u]).op = "Set" /\ Head(batch[u]).key = key
\* the instant the latest SET on key made the entry expire at
SetExpiry(key) == lastSet[key].at + lastSet[key].expiry.val

\* C1: a GET returns the stored value exactly when the map holds an entry for
\* the key with no expiry or with now <= expiry (now read inside the GET), and
\* the null bulk string in every other case; so no GET returns a value at an
\* instant after the entry's expiry.
C1_GetReturnsLiveEntry ==
  \A t \in Threads : GetDone(t) =>
    LET found == local[t].entry
        key == Head(batch[t]).key
        live == found.some /\ (~found.val.expire_timestamp.some
                               \/ local[t].now <= found.val.expire_timestamp.val)
    IN /\ live => /\ local[t].message_to_send = ValueReply(found.val.value)
                  /\ MapGet(storage, key) = found
       /\ ~live => /\ local[t].message_to_send = NULL_BULK_STRING
                   /\ key \notin DOMAIN storage
       /\ local[t].message_to_send # NULL_BULK_STRING =>
            ~(found.val.expire_timestamp.some
              /\ local[t].now > found.val.expire_timestamp.val)

\* a GET has returned the value at the very instant the entry expires
C1_Witness ==
  \E t \in Threads :
    /\ GetDone(t)
    /\ local[t].entry.some
    /\ local[t].entry.val.expire_timestamp = Some(local[t].now)
    /\ local[t].message_to_send = ValueReply(local[t].entry.val.value)

\* C2: after SET k v with a TTL of t ms read at instant T, and no later SET on
\* k, a GET k at an instant <= T+t returns v, a GET k at an instant > T+t
\* returns the null bulk string, and after it the map holds no entry for k.
C2_TtlExpiry ==
  \A t \in Threads : GetDone(t) =>
    LET key == Head(batch[t]).key IN
    (key \in DOMAIN lastSet /\ lastSet[key].expiry.some) =>
      /\ (local[t].entry.some /\ local[t].now <= SetExpiry(key)) =>
            local[t].message_to_send = ValueReply(lastSet[key].value)
      /\ now <= SetExpiry(key) =>
            local[t].message_to_send = ValueReply(lastSet[key].value)
      /\ (local[t].entry.some /\ local[t].now > SetExpiry(key)) =>
            /\ local[t].message_to_send = NULL_BULK_STRING
            /\ key \notin DOMAIN storage
      /\ ~local[t].entry.some =>
            /\ local[t].message_to_send = NULL_BULK_STRING
            /\ now > SetExpiry(key)

\* the first GET after the expiry: it found the entry, answered null, and the
\* entry is gone from the map
C2_Witness ==
  \E t \in Threads :
    LET key == Head(batch[t]).key IN
    /\ GetDone(t)
    /\ key \in DOMAIN lastSet /\ lastSet[key].expiry.some
    /\ local[t].entry.some
    /\ local[t].now > SetExpiry(key)
    /\ local[t].message_to_send = NULL_BULK_STRING
    /\ key \notin DOMAIN storage

\* C3: after SET k v without TTL and no later SET on k, every GET k returns v,
\* whatever time has passed and whatever was done on other keys.
C3_NoTtlPersists ==
  /\ \A key \in DOMAIN lastSet : ~lastSet[key].expiry.some =>
       MapGet(storage, key) = Some(StorageEntry(lastSet[key].value, None))
  /\ \A t \in Threads : GetDone(t) =>
       LET key == Head(batch[t]).key IN
       (key \in DOMAIN lastSet /\ ~lastSet[key].expiry.some) =>
          local[t].message_to_send = ValueReply(lastSet[key].value)

\* a GET at the latest instant of the clock returns the value set without
\* TTL, the other key being in the map too
C3_Witness ==
  \E t \in Threads :
    /\ GetDone(t)
    /\ Head(batch[t]).key = KeyK
    /\ KeyK \in DOMAIN lastSet /\ ~lastSet[KeyK].expiry.some
    /\ local[t].now = MaxTime
    /\ KeyJ \in DOMAIN storage
    /\ local[t].message_to_send = ValueReply(lastSet[KeyK].value)

\* C4: a SET without TTL on an existing key replaces the entry wholesale: the
\* entry then has the new value and no expiry, whatever the old entry was.
C4_SetReplacesEntry ==
  \A t \in Threads : (SetDone(t) /\ ~Head(batch[t]).expiry.some) =>
    MapGet(storage, Head(batch[t]).key) = Some(StorageEntry(Head(batch[t]).value, None))

\* the entry replaced had another value and an expiry already passed
C4_Witness ==
  \E t \in Threads :
    /\ SetDone(t) /\ ~Head(batch[t]).expiry.some
    /\ local[t].old.some
    /\ local[t].old.val.value # Head(batch[t]).value
    /\ local[t].old.val.expire_timestamp.some
    /\ local[t].old.val.expire_timestamp.val < now

\* C5: the storage operations of all threads take effect in one order: a GET
\* returns the value of the latest SET on its key before it in that order, or
\* not-found only if there is none or it has expired; the map always holds, for
\* each key, the entry of the latest SET on that key (no SET is lost, and no
\* SET changes another key) unless that entry has expired.
C5_Linearizable ==
  /\ DOMAIN storage \subseteq DOMAIN lastSet
  /\ \A key \in DOMAIN lastSet :
       IF key \in DOMAIN storage
       THEN storage[key] = StorageEntry(lastSet[key].value,
                              IF lastSet[key].expiry.some THEN Some(SetExpiry(key)) ELSE None)
       ELSE lastSet[key].expiry.some /\ now > SetExpiry(key)
  /\ \A t \in Threads : GetDone(t) =>
       LET key == Head(batch[t]).key
           message == local[t].message_to_send
       IN /\ message # NULL_BULK_STRING =>
               /\ key \in DOMAIN lastSet
               /\ message = ValueReply(lastSet[key].value)
               /\ lastSet[key].expiry.some => local[t].now <= SetExpiry(key)
          /\ message = NULL_BULK_STRING =>
               \/ key \notin DOMAIN lastSet
               \/ lastSet[key].expiry.some /\ now > SetExpiry(key)

\* a GET has returned the latest value while the other thread is blocked in
\* lock() for a SET on the same key
C5_Witness ==
  \E t \in Threads : \E u \in Threads \ {t} :
    /\ GetDone(t)
    /\ local[t].message_to_send # NULL_BULK_STRING
    /\ SetWaits(u, Head(batch[t]).key)

\* C6: between a GET's lookup and its removal no other thread's SET or GET
\* takes effect: the thread holds the mutex and the entry it found is still the
\* map's entry for the key.
C6_GetAtomic ==
  \A t \in Threads : pc[t] = "get_some" =>
    /\ lock = t
    /\ MapGet(storage, Head(batch[t]).key) = local[t].entry
    /\ \A u \in Threads \ {t} : pc[u] \notin {"get", "get_some", "set", "unlock"}

\* a GET has found an expired entry and has not removed it yet, while the other
\* thread is blocked in lock() for a SET on the same key
C6_Witness ==
  \E t \in Threads : \E u \in Threads \ {t} :
    /\ pc[t] = "get_some"
    /\ IsExpired(local[t].entry.val, local[t].now)
    /\ SetWaits(u, Head(batch[t]).key)

\* a thread holds the mutex only inside the Get or Set arm
LockDiscipline ==
  /\ lock # NoThread => pc[lock] \in {"get", "get_some", "set", "unlock"}
  /\ \A t \in Threads : pc[t] \in {"get", "get_some", "set", "unlock"} => lock = t

\* thread t is blocked in lock()
LockWaits(t) == pc[t] = "dispatch" /\ Head(batch[t]).op \in {"Get", "Set"}

\* C7: the mutex is held only during one get or set (never while reading or
\* writing the socket, nor by a thread that has ended), every holder releases
\* it, and under fair scheduling every thread blocked in lock() gets it.
C7_LockReleased ==
  /\ []LockDiscipline
  /\ \A t \in Threads : (lock = t) ~> (lock # t)
  /\ \A t \in Threads : LockWaits(t) ~> (lock = t)

\* one thread holds the mutex while the other is blocked in lock()
C7_Witness ==
  \E t \in Threads : \E u \in Threads \ {t} : lock = t /\ LockWaits(u)

----------------------------------------------------------------------------
(* The tokenizer alone: next_word called again and again on one text, as    *)
(* test_char_roller does                                                    *)

RollerAlphabet == {"a", "b", CR, LF}
MaxTextLen == 5
Texts == UNION {[1..n -> RollerAlphabet] : n \in 0..MaxTextLen}

InitRoller ==
  /\ text \in Texts
  /\ roller = from_string(text)
  /\ words = <<>>

\* a call has been made on the empty remainder
RollerDone == Len(words) > 0 /\ words[Len(words)].from = Len(text)

\* one call of next_word; words records where it started and what it returned
RollerNext ==
  /\ ~RollerDone
  /\ LET n == next_word(roller) IN
     /\ roller' = n.roller
     /\ words' = Append(words, [from |-> roller.index, result |-> n.result])
  /\ UNCHANGED text

NextRoller == RollerNext /\ UNCHANGED <<storeVars, wireVars>>

InitRollerSpec == InitStore /\ WireIdle /\ InitRoller

SpecRoller == InitRollerSpec /\ [][NextRoller]_vars

----------------------------------------------------------------------------
(* Properties of the tokenizer, checked under SpecRoller *)

\* the text split on the two-character sequence CR LF, as str::split does
RECURSIVE SplitCRLF(_, _)
SplitCRLF(s, segment) ==
  IF Len(s) = 0 THEN <<segment>>
  ELSE IF Len(s) >= 2 /\ s[1] = CR /\ s[2] = LF
       THEN <<segment>> \o SplitCRLF(SubSeq(s, 3, Len(s)), <<>>)
       ELSE SplitCRLF(Tail(s), Append(segment, s[1]))

\* the segments of the text: what follows the last CR LF is the remainder the
\* final call is made on, and is a segment only when it is not empty
Segments(s) ==
  LET all == SplitCRLF(s, <<>>) IN
  IF Len(all[Len(all)]) = 0 THEN SubSeq(all, 1, Len(all) - 1) ELSE all

\* what next_word has returned before the call made on the empty remainder
ResultsBeforeEnd == [i \in 1..(Len(words) - 1) |-> words[i].result]

\* the successive results are the segments, then None on the empty remainder
TokensAreSegments ==
  /\ ResultsBeforeEnd = [i \in 1..Len(Segments(text)) |-> Some(Segments(text)[i])]
  /\ words[Len(words)].result = None

\* no segment is empty or holds a CR or an LF of its own
PlainSegments(s) ==
  \A i \in 1..Len(Segments(s)) :
    /\ Len(Segments(s)[i]) > 0
    /\ \A n \in 1..Len(Segments(s)[i]) : Segments(s)[i][n] \notin {CR, LF}

\* the text holds a CR LF sequence
ContainsCRLF(s) == \E i \in 1..(Len(s) - 1) : s[i] = CR /\ s[i + 1] = LF

\* C8 as stated: for any text containing CR LF sequences, the successive
\* results of next_word are exactly the segments of the text split on CR LF,
\* and the call on the empty remainder returns None.
C8_AnyTextTokensAreSegments ==
  (RollerDone /\ ContainsCRLF(text)) => TokensAreSegments

\* C8 amended: the same, for a text whose segments are not empty and hold no CR
\* or LF of their own.
C8_PlainTextTokensAreSegments ==
  (RollerDone /\ ContainsCRLF(text) /\ PlainSegments(text)) => TokensAreSegments

\* next_word has been called to the end of a text of two segments or more
C8_Witness ==
  /\ RollerDone
  /\ ContainsCRLF(text)
  /\ PlainSegments(text)
  /\ Len(Segments(text)) >= 2
  /\ Len(words) >= 3

----------------------------------------------------------------------------
(* One connection, read by read: handle_stream with handle_client_message   *)
(* run word by word                                                         *)

\* [0 as u8; 1024]
BufferSize == 1024
\* the number of reads a client's text is delivered in
MaxReads == 2
\* the longest payload of an ECHO request
MaxPayloadLen == 2
PayloadAlphabet == {"a", " ", CR, LF}
Payloads == UNION {[1..n -> PayloadAlphabet] : n \in 1..MaxPayloadLen}
Builds == {"debug", "release"}

EchoName == <<"E", "C", "H", "O">>
EchoRequest(payload) == Request(<<EchoName, payload>>)

\* requests framed as *N and N $len/content pairs, content free of CR, LF, blanks
FramedRequests ==
  { Request(<<<<"P", "I", "N", "G">>>>),
    Request(<<EchoName, <<"a">>>>),
    Request(<<<<"G", "E", "T">>, KeyK>>),
    Request(<<<<"S", "E", "T">>, KeyK, ValV>>) }

PingName == <<"P", "I", "N", "G">>
GetName == <<"G", "E", "T">>
SetName == <<"S", "E", "T">>
FooName == <<"f", "o", "o">>
PX == <<"p", "x">>

\* two complete requests back to back in one message
PingThenEcho == Request(<<PingName>>) \o Request(<<EchoName, <<"a">>>>)
FooThenPing == Request(<<FooName>>) \o Request(<<PingName>>)
PingThenFoo == Request(<<PingName>>) \o Request(<<FooName>>)
PipelinedRequests == {PingThenEcho, FooThenPing, PingThenFoo}

\* a complete request followed by bulk strings that no array header declares
EchoThenBareEcho == Request(<<EchoName, <<"a">>>>) \o BulkStrings(<<EchoName>>)
PingThenBareEcho == Request(<<PingName>>) \o BulkStrings(<<EchoName>>)
FooThenBarePing == Request(<<FooName>>) \o BulkStrings(<<PingName>>)
HeaderlessTexts == {EchoThenBareEcho, PingThenBareEcho, FooThenBarePing}

\* a request cut short: the header declares two elements, one is there
TruncatedEcho == <<"*", "2">> \o SEPARATOR \o BulkStrings(<<EchoName>>)
\* a complete request, then one that stops after its first bulk string
PingThenTruncated == Request(<<PingName>>) \o BulkStrings(<<EchoName>>)
                       \o <<"$", "1">> \o SEPARATOR
TruncatedRequests == {TruncatedEcho, PingThenTruncated}

\* SET with two to five arguments and each kind of fourth argument
SetArgs ==
  { <<KeyK, ValV>>,
    <<KeyK, ValV, PX>>,
    <<KeyK, ValV, PX, <<"1">>>>,
    <<KeyK, ValV, PX, <<"0">>>>,
    <<KeyK, ValV, PX, <<"a", "b", "c">>>>,
    <<KeyK, ValV, PX, <<"1">>, <<"x">>>> }
SetRequests == {Request(<<SetName>> \o args) : args \in SetArgs}

\* well-framed requests that carry fewer arguments than their command reads
ShortRequests ==
  { Request(<<GetName>>), Request(<<SetName>>), Request(<<SetName, KeyK>>) }

\* an array header declaring no element, followed by a bulk string
EmptyArrayThenPing == <<"*", "0">> \o SEPARATOR \o BulkStrings(<<PingName>>)

WireTexts ==
  FramedRequests \cup {EchoRequest(payload) : payload \in Payloads}
    \cup PipelinedRequests \cup HeaderlessTexts \cup TruncatedRequests
    \cup SetRequests \cup ShortRequests \cup {EmptyArrayThenPing}

\* the Get arm run alone on a map at time t: the map after it and the reply
GetArm(map, key, t) ==
  LET found == MapGet(map, key) IN
  IF ~found.some THEN [storage |-> map, message_to_send |-> NULL_BULK_STRING]
  ELSE IF IsExpired(found.val, t)
       THEN [storage |-> MapRemove(map, key), message_to_send |-> NULL_BULK_STRING]
       ELSE [storage |-> map,
             message_to_send |-> format_message("BulkString", found.val.value)]

\* the Set arm run alone
SetArm(map, instruction, t) ==
  [storage |-> MapInsert(map, instruction.key,
                 StorageEntry(instruction.value, ExpireTimestamp(instruction.expiry, t))),
   message_to_send |-> format_message("SimpleString", <<"O", "K">>)]

\* the match instruction { .. } of handle_stream, with no other thread running
RunInstruction(map, instruction, t) ==
  CASE instruction.op = "Echo" ->
         [storage |-> map,
          message_to_send |-> format_message("BulkString", instruction.value)]
    [] instruction.op = "Command" ->
         [storage |-> map,
          message_to_send |-> format_message("SimpleString", NotSupportedYet)]
    [] instruction.op = "Get" -> GetArm(map, instruction.key, t)
    [] instruction.op = "Set" -> SetArm(map, instruction, t)
    [] instruction.op = "Ping" ->
         [storage |-> map,
          message_to_send |-> format_message("SimpleString", <<"P", "O", "N", "G">>)]

\* the for loop over instructions: the map after it and the replies written
RECURSIVE RunInstructions(_, _, _)
RunInstructions(map, instructions, t) ==
  IF Len(instructions) = 0 THEN [storage |-> map, sent |-> <<>>]
  ELSE LET first == RunInstruction(map, Head(instructions), t)
           others == RunInstructions(first.storage, Tail(instructions), t)
       IN [storage |-> others.storage, sent |-> <<first.message_to_send>> \o others.sent]

\* handle_stream without lines 94-104: an empty Vec is answered by nothing
RepliesWithoutError(map, instructions, t) == RunInstructions(map, instructions, t)

\* what handle_stream writes for one message: the Error for an empty Vec
Replies(map, instructions, t) ==
  LET run == RunInstructions(map, instructions, t) IN
  [storage |-> run.storage,
   sent |-> IF Len(instructions) = 0
            THEN <<format_message("Error", ErrorProcessingMessage)>>
            ELSE run.sent]

Min(a, b) == IF a < b THEN a ELSE b

InitWire ==
  /\ text \in WireTexts
  /\ roller = from_string(<<>>)
  /\ words = <<>>
  /\ ps = InitialParser
  /\ \E build \in Builds :
       wire = [pc |-> "read", rest |-> text, reads |-> 0, decoded |-> <<>>,
               sent |-> <<>>, build |-> build, declared |-> 0, consumed |-> 0,
               emits |-> <<>>, log |-> <<>>]

\* the history of the parse after one loop iteration took the locals from p to q
Noted(h, p, q) ==
  LET header == p.state = "ReadingArray" /\ q.state = "ReadingBulkStringLength"
      content == p.state = "ReadingBulkStringContent"
      declared == IF header THEN q.items_left_count ELSE h.declared
      consumed == IF header THEN 0 ELSE IF content THEN h.consumed + 1 ELSE h.consumed
  IN [h EXCEPT !.declared = declared, !.consumed = consumed,
               !.emits = IF Len(q.instructions) > Len(p.instructions)
                         THEN Append(@, [declared |-> declared, consumed |-> consumed])
                         ELSE @]

\* stream.read returns the next n bytes the client sent; the message is parsed
\* from a fresh state
WireRead ==
  /\ wire.pc = "read"
  /\ Len(wire.rest) > 0
  /\ \E n \in 1..Min(Len(wire.rest), BufferSize) :
       /\ n < Len(wire.rest) => wire.reads + 1 < MaxReads
       /\ roller' = from_string(SubSeq(wire.rest, 1, n))
       /\ wire' = [wire EXCEPT !.pc = "parse", !.reads = @ + 1,
                               !.rest = SubSeq(wire.rest, n + 1, Len(wire.rest)),
                               !.declared = 0, !.consumed = 0, !.emits = <<>>]
  /\ ps' = InitialParser
  /\ UNCHANGED <<storeVars, text, words>>

\* stream.read returns Ok(0): break
WireEof ==
  /\ wire.pc = "read"
  /\ Len(wire.rest) = 0
  /\ wire' = [wire EXCEPT !.pc = "closed"]
  /\ UNCHANGED <<storeVars, rollerVars, ps>>

\* one iteration of while let Some(raw_word) = roller.next_word()
WireWord ==
  /\ wire.pc = "parse"
  /\ LET n == next_word(roller) IN
     /\ roller' = n.roller
     /\ IF ~n.result.some
        THEN /\ wire' = [wire EXCEPT !.pc = "respond"]
             /\ UNCHANGED ps
        ELSE /\ ps' = ParseWord(ps, n.result.val, wire.build)
             /\ wire' = Noted([wire EXCEPT !.pc = IF ps'.panic # "" THEN "panicked"
                                                  ELSE "parse"], ps, ps')
  /\ UNCHANGED <<storeVars, text, words>>

\* the rest of the loop body of handle_stream: the Error or the replies
WireRespond ==
  /\ wire.pc = "respond"
  /\ LET run == Replies(storage, ps.instructions, now) IN
     /\ storage' = run.storage
     /\ wire' = [wire EXCEPT !.pc = "read",
                             !.decoded = @ \o ps.instructions,
                             !.sent = @ \o run.sent,
                             !.log = Append(@, [instructions |-> ps.instructions,
                                                sent |-> run.sent])]
  /\ UNCHANGED <<lock, now, pc, batch, local, lastSet, rollerVars, ps>>

NextWire == WireRead \/ WireEof \/ WireWord \/ WireRespond

InitWireSpec == InitStore /\ InitWire

SpecWire == InitWireSpec /\ [][NextWire]_vars

----------------------------------------------------------------------------
(* Properties of decoding, checked under SpecWire *)

\* the connection has ended: the loop has left on Ok(0), or the thread panicked
WireEnded == wire.pc \in {"closed", "panicked"}
\* the whole text was delivered by the first read
ReadWhole == wire.reads = 1 /\ Len(wire.rest) = 0

\* C9: round trip: for every non-empty string v, the bulk string that
\* format_message makes of v, sent as the argument of an ECHO request and read
\* whole, is decoded to Echo(v), and the reply is the bulk string of v again.
C9_EchoRoundTrip ==
  \A payload \in Payloads :
    (text = EchoRequest(payload) /\ WireEnded /\ ReadWhole) =>
      /\ wire.pc = "closed"
      /\ wire.decoded = <<Echo(payload)>>
      /\ wire.sent = <<format_message("BulkString", payload)>>

\* C10: a well-framed request delivered in two reads, split anywhere, gives the
\* same Commands and the same replies as the request delivered in one read.
C10_SplitIndependent ==
  (text \in FramedRequests /\ WireEnded) =>
    LET single == handle_client_message(text, wire.build) IN
    /\ wire.pc = "closed"
    /\ wire.decoded = single.instructions
    /\ wire.sent = Replies(<<>>, single.instructions, 0).sent

-----------------------------------------------------------------------------
(* Properties of the framing state machine, checked under SpecWire *)

\* the content tokens of the command being assembled ran out before its count
Incomplete ==
  \/ ps.state = "ReadingBulkStringContent"
  \/ wire.consumed < wire.declared

\* C11: a Command is pushed only when the content tokens consumed since the
\* array header that opened it number exactly the N that header declared; and
\* when the tokens run out in the middle of a command, the parser returns the
\* commands pushed so far, one per completed count, and nothing for the rest.
C11_EmitsAfterDeclaredCount ==
  /\ \A i \in 1..Len(wire.emits) :
       wire.emits[i].consumed = wire.emits[i].declared
  /\ (wire.pc = "respond" /\ Incomplete) =>
       Len(ps.instructions) = Len(wire.emits)

Pong == format_message("SimpleString", <<"P", "O", "N", "G">>)

\* C12: an unknown command name is skipped without failing the batch: of a
\* message holding an unknown request and a PING request, in either order and
\* read whole, the PING is parsed and answered and the connection lives on.
C12_UnknownSkipped ==
  (text \in {FooThenPing, PingThenFoo} /\ ReadWhole /\ WireEnded) =>
    /\ wire.pc = "closed"
    /\ wire.decoded = <<Ping>>
    /\ wire.sent = <<Pong>>

-----------------------------------------------------------------------------
(* Properties of the replies, checked under SpecWire *)

ErrorReply == format_message("Error", ErrorProcessingMessage)

\* reply is what the arm of instruction writes
IsReplyTo(reply, instruction) ==
  CASE instruction.op = "Ping" -> reply = Pong
    [] instruction.op = "Echo" ->
         reply = format_message("BulkString", instruction.value)
    [] instruction.op = "Command" ->
         reply = format_message("SimpleString", NotSupportedYet)
    [] instruction.op = "Set" ->
         reply = format_message("SimpleString", <<"O", "K">>)
    [] instruction.op = "Get" -> reply[1] = "$"

-----------------------------------------------------------------------------
(* Properties of SET's time to live, checked under SpecWire *)

Ok == format_message("SimpleString", <<"O", "K">>)

\* the fourth argument is a decimal numeral of a value above zero
PositiveNumeral(s) ==
  /\ Len(s) > 0
  /\ \A i \in 1..Len(s) : IsDigit(s[i])
  /\ \E i \in 1..Len(s) : s[i] # "0"

\* C14: a SET request is turned into Set(args[0], args[1], ttl), the ttl
\* present exactly when the request has four arguments and the fourth parses
\* as an unsigned integer above zero; with a non-numeric or zero fourth
\* argument the command is emitted with no ttl, answered +OK, and the entry
\* it stores has no expiry, so that no instant is after it.
C14_SetTtl ==
  \A args \in SetArgs :
    (text = Request(<<SetName>> \o args) /\ ReadWhole /\ WireEnded) =>
      /\ wire.pc = "closed"
      /\ Len(wire.decoded) = 1
      /\ wire.decoded[1].op = "Set"
      /\ wire.decoded[1].key = args[1]
      /\ wire.decoded[1].value = args[2]
      /\ wire.decoded[1].expiry.some <=> (Len(args) = 4 /\ PositiveNumeral(args[4]))
      /\ wire.decoded[1].expiry.some =>
           wire.decoded[1].expiry.val = DigitsValue(args[4], 0)
      /\ wire.sent = <<Ok>>
      /\ args[1] \in DOMAIN storage
      /\ storage[args[1]].value = args[2]
      /\ storage[args[1]].expire_timestamp.some <=> wire.decoded[1].expiry.some
      /\ ~wire.decoded[1].expiry.some =>
           \A t \in 0..(MaxTime + SecondMs) : ~IsExpired(storage[args[1]], t)

\* SET k v px abc was read, answered +OK, and k is stored without expiry
C14_Witness ==
  /\ text = Request(<<SetName, KeyK, ValV, PX, <<"a", "b", "c">>>>)
  /\ wire.pc = "closed"
  /\ wire.decoded = <<Set(KeyK, ValV, None)>>
  /\ wire.sent = <<Ok>>
  /\ storage[KeyK] = StorageEntry(ValV, None)

-----------------------------------------------------------------------------
(* Properties of a panic of the parser, checked under Spec *)

\* thread t ended in handle_client_message: it panicked with no reply pending
FramingPanic(t) == pc[t] = "panicked" /\ local[t] = NoLocal

\* the step changes nothing of thread u
Untouched(u) ==
  /\ pc'[u] = pc[u]
  /\ batch'[u] = batch[u]
  /\ local'[u] = local[u]

-----------------------------------------------------------------------------
(* Properties of the parser across commands, checked under SpecWire *)

\* C16: after the last element of a command the parser goes on to the next
\* pipelined command of the same message: a PING request and an ECHO request
\* back to back, read whole, yield Ping and Echo, in that order, and their
\* two replies.
C16_PipelinedCommands ==
  (text = PingThenEcho /\ ReadWhole /\ WireEnded) =>
    /\ wire.pc = "closed"
    /\ wire.decoded = <<Ping, Echo(<<"a">>)>>
    /\ wire.sent = <<Pong, format_message("BulkString", <<"a">>)>>

\* the parser has just run the match on the command name
Dispatched ==
  /\ ps.state = "ReadingBulkStringContent"
  /\ ps.items_left_count = 1
  /\ ps'.state = "ReadingBulkStringLength"
  /\ ps'.panic = ""

\* C17: when a command is dispatched the accumulator is reset: command name
\* and argument list are both empty before the first content token of the
\* next command, so that a Command is built from its own content tokens only.
C17_AccumulatorReset ==
  [][Dispatched => (ps'.command_name = <<>> /\ ps'.args = <<>>)]_vars

-----------------------------------------------------------------------------
(* Frame properties of the map, checked under Spec *)

\* thread t takes this step, from position at, on an instruction for key
Steps(t, at, key) ==
  /\ pc[t] = at
  /\ pc'[t] # at
  /\ Head(batch[t]).key = key

\* C18: an entry leaves the map only in the step of a GET of its own key that
\* observed now > expiry, and is changed only by a SET of its own key: time
\* passing, PING, ECHO, COMMAND and GET or SET of another key leave it as it
\* is (so an expired entry that is never read stays); and a GET that answers
\* a value leaves the whole map unchanged.
C18_FrameEffect ==
  [][/\ \A key \in DOMAIN storage :
          /\ key \notin DOMAIN storage' =>
               \E t \in Threads :
                 /\ Steps(t, "get_some", key)
                 /\ storage[key].expire_timestamp.some
                 /\ local[t].now > storage[key].expire_timestamp.val
          /\ (key \in DOMAIN storage' /\ storage'[key] # storage[key]) =>
               \E t \in Threads : Steps(t, "set", key)
     /\ \A t \in Threads :
          (pc[t] = "get_some" /\ pc'[t] = "unlock"
             /\ local'[t].message_to_send # NULL_BULK_STRING) =>
            storage' = storage]_vars

\* the entry of k expired and is still in the map, while a GET of another key
\* has just been served
C18_Witness ==
  \E t \in Threads :
    /\ KeyK \in DOMAIN storage
    /\ storage[KeyK].expire_timestamp.some
    /\ now > storage[KeyK].expire_timestamp.val
    /\ pc[t] = "unlock"
    /\ Head(batch[t]).op = "Get"
    /\ Head(batch[t]).key = KeyJ
    /\ local[t].message_to_send = format_message("BulkString", ValV)

-----------------------------------------------------------------------------
(* Properties of well-framed input and of the element counter, under SpecWire *)

\* C19: every message that follows the framing grammar (*N with N >= 1, then
\* N $len/content pairs) is parsed without failure whatever the command name
\* and the number of arguments: GET with no argument, SET with none or one,
\* read whole, do not make the parser fail.
C19_ShortRequestsParse ==
  (text \in ShortRequests /\ ReadWhole /\ WireEnded) => wire.pc = "closed"

\* C20: the remaining-element counter never underflows: it is at least 1
\* whenever it is decremented and stays between 0 and the declared N, for
\* every token sequence, *0 followed by a bulk string included.
C20_CounterInRange ==
  /\ 0 <= ps.items_left_count
  /\ ps.items_left_count <= wire.declared
  /\ ps.panic # "attempt to subtract with overflow"

====
